---------------------------- MODULE Spec2Model ----------------------------
(***************************************************************************)
(* Model of the endless-pdf-light-conversion HTTP service.                 *)
(*                                                                         *)
(* Two server files are modelled: src/unnamed/part_000 (the server with    *)
(* the watermark-content check, followed by utils/pdfMetadata.js) and      *)
(* src/index.js (the shorter server).  Both import the same                *)
(* addEndlessForgeMetadata.  A request names the file that serves it.      *)
(*                                                                         *)
(* JavaScript values:                                                      *)
(*   - a string is a sequence of one-character strings;                    *)
(*   - an optional string is [def, s]; Undef is JavaScript's undefined;    *)
(*   - a number is [nan, num, scale], the decimal num / 10^scale;          *)
(*   - page coordinates are kept doubled (x2 = 2*x) so that width/2 and    *)
(*     size/2 stay integers.                                               *)
(***************************************************************************)
EXTENDS Integers, Sequences, FiniteSets, TLC

VARIABLES
    pc,          \* position of the handler serving the current request
    req,         \* the request: route, serving file, uploaded files, body
    pdfDoc,      \* the loaded Document (NoDoc before PDFDocument.load)
    embeddedImg, \* the embedded watermark image (NoImg when unset)
    opacity,     \* the effective opacity computed once per request
    ops,         \* per page, the draw operations issued on that page
    err,         \* message of the exception caught by the handler
    res,         \* the responses written for the current request, in order
    hist         \* history: counts of fetch / base64 decode / embed calls

vars == <<pc, req, pdfDoc, embeddedImg, opacity, ops, err, res, hist>>

---------------------------------------------------------------------------
(* Bounds of the model *)

MaxPages == 2
MaxOpLen == 3
MaxSetFields == 2

---------------------------------------------------------------------------
(* Strings *)

Undef == [def |-> FALSE, s |-> <<>>]
Str(s) == [def |-> TRUE, s |-> s]

\* JavaScript truthiness of an optional string: undefined and "" are falsy.
Truthy(v) == v.def /\ Len(v.s) > 0

StartsWith(s, p) == Len(s) >= Len(p) /\ SubSeq(s, 1, Len(p)) = p

Includes(s, sub) ==
    \E i \in 1..(Len(s) - Len(sub) + 1) : SubSeq(s, i, i + Len(sub) - 1) = sub

\* Index of the first occurrence of character c in s, 0 when there is none.
IndexOf(s, c) ==
    IF \E i \in 1..Len(s) : s[i] = c
    THEN CHOOSE i \in 1..Len(s) : s[i] = c /\ \A j \in 1..(i-1) : s[j] # c
    ELSE 0

RECURSIVE Split(_, _)
\* s.split(c): the pieces of s between occurrences of c.
Split(s, c) ==
    LET i == IndexOf(s, c)
    IN IF i = 0 THEN <<s>>
       ELSE <<SubSeq(s, 1, i - 1)>> \o Split(SubSeq(s, i + 1, Len(s)), c)

RECURSIVE TrimStart(_)
TrimStart(s) == IF s # <<>> /\ Head(s) = " " THEN TrimStart(Tail(s)) ELSE s

RECURSIVE TrimEnd(_)
TrimEnd(s) ==
    IF s # <<>> /\ s[Len(s)] = " " THEN TrimEnd(SubSeq(s, 1, Len(s) - 1)) ELSE s

Trim(s) == TrimEnd(TrimStart(s))

\* s.replace(c, ""): removes the first occurrence of c only.
ReplaceFirst(s, c) ==
    LET i == IndexOf(s, c)
    IN IF i = 0 THEN s ELSE SubSeq(s, 1, i - 1) \o SubSeq(s, i + 1, Len(s))

\* All sequences over alphabet A of length at most n.
SeqsUpTo(A, n) == UNION {[1..k -> A] : k \in 0..n}

---------------------------------------------------------------------------
(* Numbers *)

RECURSIVE Pow10(_)
Pow10(k) == IF k = 0 THEN 1 ELSE 10 * Pow10(k - 1)

NaN == [nan |-> TRUE, num |-> 0, scale |-> 0]
Num(n, k) == [nan |-> FALSE, num |-> n, scale |-> k]

\* a <= b for two non-NaN numbers
NumLe(a, b) == a.num * Pow10(b.scale) <= b.num * Pow10(a.scale)
NumEq(a, b) ==
    /\ a.nan = b.nan
    /\ ~a.nan => a.num * Pow10(b.scale) = b.num * Pow10(a.scale)

\* Math.max / Math.min on non-NaN numbers
MathMax(a, b) == IF NumLe(a, b) THEN b ELSE a
MathMin(a, b) == IF NumLe(a, b) THEN a ELSE b

\* a * 0.5
Half(a) == IF a.nan THEN NaN ELSE Num(a.num * 5, a.scale + 1)

Digits == <<"0", "1", "2", "3", "4", "5", "6", "7", "8", "9">>
IsDigit(c) == \E i \in 1..10 : Digits[i] = c
DigitVal(c) == (CHOOSE i \in 1..10 : Digits[i] = c) - 1

RECURSIVE DigitsLen(_)
\* length of the longest prefix of s made of decimal digits
DigitsLen(s) ==
    IF s # <<>> /\ IsDigit(Head(s)) THEN 1 + DigitsLen(Tail(s)) ELSE 0

RECURSIVE DigitsVal(_, _)
\* value of the digit string s, continuing from the accumulator acc
DigitsVal(s, acc) ==
    IF s = <<>> THEN acc ELSE DigitsVal(Tail(s), 10 * acc + DigitVal(Head(s)))

\* parseFloat(v): leading blanks skipped, optional sign, digits, optional
\* fraction; the longest such prefix is the value, NaN when there is none.
\* (Exponents and "Infinity" are not produced by the modelled inputs.)
parseFloat(v) ==
    IF ~v.def THEN NaN
    ELSE LET t == TrimStart(v.s)
             signed == t # <<>> /\ Head(t) \in {"-", "+"}
             neg == t # <<>> /\ Head(t) = "-"
             u == IF signed THEN Tail(t) ELSE t
             ni == DigitsLen(u)
             r == SubSeq(u, ni + 1, Len(u))
             nf == IF r # <<>> /\ Head(r) = "." THEN DigitsLen(Tail(r)) ELSE 0
             ip == DigitsVal(SubSeq(u, 1, ni), 0)
             mag == DigitsVal(SubSeq(r, 2, nf + 1), ip)
         IN IF ni = 0 /\ nf = 0 THEN NaN
            ELSE Num(IF neg THEN -mag ELSE mag, nf)

RECURSIVE NatToString(_)
NatToString(n) ==
    IF n < 10 THEN <<Digits[n + 1]>>
    ELSE NatToString(n \div 10) \o <<Digits[(n % 10) + 1]>>

RECURSIVE FracToString(_, _)
\* the k digits of f, left-padded with zeros
FracToString(f, k) ==
    IF k = 0 THEN <<>>
    ELSE FracToString(f \div 10, k - 1) \o <<Digits[(f % 10) + 1]>>

\* String(n) for a number: sign, integer part, "." and the fraction digits.
NumToString(n) ==
    IF n.nan THEN Str(<<"N", "a", "N">>)
    ELSE LET mag == IF n.num < 0 THEN -n.num ELSE n.num
             p == Pow10(n.scale)
         IN Str((IF n.num < 0 THEN <<"-">> ELSE <<>>)
                \o NatToString(mag \div p)
                \o (IF n.scale = 0 THEN <<>>
                    ELSE <<".">> \o FracToString(mag % p, n.scale)))

\* parseFloat applied to a number: it is converted to a string first.
parseFloatNum(n) == parseFloat(NumToString(n))

---------------------------------------------------------------------------
(* Opacity *)

DefaultOpacity == Num(3, 1)
Zero == Num(0, 0)
One == Num(1, 0)

\* part_000: isNaN(rawOpacity) ? 0.3 : Math.min(Math.max(rawOpacity, 0), 1)
opacityOf(v) ==
    LET rawOpacity == parseFloat(v)
    IN IF rawOpacity.nan THEN DefaultOpacity
       ELSE MathMin(MathMax(rawOpacity, Zero), One)

\* index.js: Math.min(Math.max(parseFloat(req.body.opacity) || 0.3, 0), 1)
\* (NaN and 0 are both falsy, so both give 0.3)
opacityOfIndex(v) ==
    LET p == parseFloat(v)
        q == IF p.nan \/ p.num = 0 THEN DefaultOpacity ELSE p
    IN MathMin(MathMax(q, Zero), One)

---------------------------------------------------------------------------
(* Color *)

HexDigits == <<"0", "1", "2", "3", "4", "5", "6", "7", "8", "9",
               "a", "b", "c", "d", "e", "f">>
UpperHex == <<"A", "B", "C", "D", "E", "F">>
IsHex(c) == (\E i \in 1..16 : HexDigits[i] = c) \/ (\E i \in 1..6 : UpperHex[i] = c)
HexVal(c) ==
    IF \E i \in 1..16 : HexDigits[i] = c
    THEN (CHOOSE i \in 1..16 : HexDigits[i] = c) - 1
    ELSE (CHOOSE i \in 1..6 : UpperHex[i] = c) + 9

RECURSIVE HexLen(_)
HexLen(s) == IF s # <<>> /\ IsHex(Head(s)) THEN 1 + HexLen(Tail(s)) ELSE 0

RECURSIVE HexValue(_, _)
HexValue(s, acc) ==
    IF s = <<>> THEN acc ELSE HexValue(Tail(s), 16 * acc + HexVal(Head(s)))

\* parseInt(s, 16): leading blanks skipped, optional sign, optional 0x, then
\* the longest prefix of hex digits; NaN when that prefix is empty.
parseInt16(s) ==
    LET t == TrimStart(s)
        signed == t # <<>> /\ Head(t) \in {"-", "+"}
        neg == t # <<>> /\ Head(t) = "-"
        u == IF signed THEN Tail(t) ELSE t
        w == IF Len(u) >= 2 /\ u[1] = "0" /\ u[2] \in {"x", "X"}
             THEN SubSeq(u, 3, Len(u)) ELSE u
        n == HexLen(w)
        mag == HexValue(SubSeq(w, 1, n), 0)
    IN IF n = 0 THEN NaN ELSE Num(IF neg THEN -mag ELSE mag, 0)

TwoTo24 == 16777216

\* The bits 0..23 of ToInt32(n), all that the shifts and masks below read:
\* NaN becomes 0, and two's complement wrapping keeps n mod 2^24.
ToInt32(n) == IF n.nan THEN 0 ELSE n.num % TwoTo24

\* (x >> log2(k)) & 255
ShiftByte(x, k) == (x \div k) % 256

\* hexToRgb: the three channel bytes; each is divided by 255 by the code, the
\* model keeps the byte.  No path of the function throws.
hexToRgb(hex) ==
    LET bigint == ToInt32(parseInt16(ReplaceFirst(hex, "#")))
    IN [threw |-> FALSE,
        r |-> ShiftByte(bigint, 65536),
        g |-> ShiftByte(bigint, 256),
        b |-> ShiftByte(bigint, 1)]

DefaultColor == <<"#", "c", "c", "c", "c", "c", "c">>

\* const { color = "#cccccc" } = req.body
colorOf(v) == IF v.def THEN v.s ELSE DefaultColor

---------------------------------------------------------------------------
(* Geometry *)

margin == 30

PosUndef == [def |-> FALSE, s |-> ""]
Pos(name) == [def |-> TRUE, s |-> name]

\* const { position = "center" } = req.body
positionOf(v) == IF v.def THEN v.s ELSE "center"

\* A switch whose "top-right" case lacks its break and falls into "bottom-left".
anchorForFallThrough(position, width, height) ==
    CASE position = "top-left" -> <<2 * margin, 2 * (height - margin)>>
      [] position = "top-right" -> <<2 * margin, 2 * margin>>
      [] position = "bottom-left" -> <<2 * margin, 2 * margin>>
      [] position = "bottom-right" -> <<2 * (width - margin), 2 * margin>>
      [] OTHER -> <<width, height>>

\* part_000: the switch of the per-page loop.  Doubled coordinates.
anchorFor(position, width, height) ==
    CASE position = "top-left" -> <<2 * margin, 2 * (height - margin)>>
      [] position = "top-right" -> <<2 * (width - margin), 2 * (height - margin)>>
      [] position = "bottom-left" -> <<2 * margin, 2 * margin>>
      [] position = "bottom-right" -> <<2 * (width - margin), 2 * margin>>
      [] OTHER -> <<width, height>>

\* index.js: the if/else-if chain of the per-page loop.  Doubled coordinates.
anchorForIndex(position, width, height) ==
    IF position = "top-left" THEN <<2 * margin, 2 * (height - margin)>>
    ELSE IF position = "top-right"
         THEN <<2 * (width - margin), 2 * (height - margin)>>
    ELSE IF position = "bottom-left" THEN <<2 * margin, 2 * margin>>
    ELSE IF position = "bottom-right" THEN <<2 * (width - margin), 2 * margin>>
    ELSE <<width, height>>

---------------------------------------------------------------------------
(* Dates *)

\* Days from 1970-01-01 to the first day of month m0 (0-based, any integer)
\* of year y, as Date.UTC normalises month overflow.
DaysToMonth(y, m0) ==
    LET yy == y + (m0 \div 12)
        mm == (m0 % 12) + 1
        ya == IF mm <= 2 THEN yy - 1 ELSE yy
        era == ya \div 400
        yoe == ya - era * 400
        mp == (mm + 9) % 12
        doy == (153 * mp + 2) \div 5
        doe == yoe * 365 + (yoe \div 4) - (yoe \div 100) + doy
    IN era * 146097 + doe - 719468

\* Date.UTC(y, m0, d, h, min, s) in seconds since the epoch.
DateUTC(y, m0, d, h, min, s) ==
    (DaysToMonth(y, m0) + (d - 1)) * 86400 + h * 3600 + min * 60 + s

NoDate == [def |-> FALSE, valid |-> FALSE, t |-> 0]
DateAt(t) == [def |-> TRUE, valid |-> TRUE, t |-> t]
InvalidDate == [def |-> TRUE, valid |-> FALSE, t |-> 0]

AllDigits(s) == \A i \in 1..Len(s) : IsDigit(s[i])
NumAt(s, i, n) == DigitsVal(SubSeq(s, i, i + n - 1), 0)

\* parsePdfDate: /^D:(\d{4})(\d{2})(\d{2})(\d{2})(\d{2})(\d{2})/ then
\* new Date(Date.UTC(y, m - 1, d, h, min, s)).toISOString().  The ISO string
\* is represented by the instant it renders (seconds since the epoch).
parsePdfDate(v) ==
    IF ~Truthy(v) THEN NoDate
    ELSE LET str == v.s
         IN IF /\ Len(str) >= 16
               /\ SubSeq(str, 1, 2) = <<"D", ":">>
               /\ AllDigits(SubSeq(str, 3, 16))
            THEN DateAt(DateUTC(NumAt(str, 3, 4), NumAt(str, 7, 2) - 1,
                                NumAt(str, 9, 2), NumAt(str, 11, 2),
                                NumAt(str, 13, 2), NumAt(str, 15, 2)))
            ELSE NoDate

\* new Date(str) for the inputs of the model: the full ISO-8601 UTC form
\* YYYY-MM-DDTHH:mm:ssZ is an instant, every other modelled input (blank or
\* non-date text) is an Invalid Date.
newDate(str) ==
    IF /\ Len(str) = 20
       /\ AllDigits(SubSeq(str, 1, 4)) /\ str[5] = "-"
       /\ AllDigits(SubSeq(str, 6, 7)) /\ str[8] = "-"
       /\ AllDigits(SubSeq(str, 9, 10)) /\ str[11] = "T"
       /\ AllDigits(SubSeq(str, 12, 13)) /\ str[14] = ":"
       /\ AllDigits(SubSeq(str, 15, 16)) /\ str[17] = ":"
       /\ AllDigits(SubSeq(str, 18, 19)) /\ str[20] = "Z"
    THEN DateAt(DateUTC(NumAt(str, 1, 4), NumAt(str, 6, 2) - 1, NumAt(str, 9, 2),
                        NumAt(str, 12, 2), NumAt(str, 15, 2), NumAt(str, 18, 2)))
    ELSE InvalidDate

---------------------------------------------------------------------------
(* Documents, as the handlers see them through the PDF library *)

InfoKeys == {"Title", "Author", "Subject", "Keywords", "Creator", "Producer",
             "CreationDate", "ModDate", "Company", "Manager", "SourceModified",
             "Category", "Comments"}

\* The Info dictionary reached through the trailer: absent, or a dictionary
\* whose entries are given by their decoded text (Undef: no such entry).
NoInfo == [present |-> FALSE, d |-> [k \in InfoKeys |-> Undef]]
InfoWith(f) ==
    [present |-> TRUE,
     d |-> [k \in InfoKeys |-> IF k \in DOMAIN f THEN f[k] ELSE Undef]]

\* The values behind the document's structured accessors (getTitle, ...).
EmptyAcc ==
    [title |-> Undef, author |-> Undef, subject |-> Undef, keywords |-> Undef,
     creator |-> Undef, producer |-> Undef,
     creationDate |-> NoDate, modificationDate |-> NoDate]

\* trailerOk: whether pdfDoc.context.trailer is an object with a get method.
\* The library decides it; the handlers test for both outcomes.
NoDoc ==
    [loaded |-> FALSE, pages |-> <<>>, trailerOk |-> FALSE, info |-> NoInfo,
     acc |-> EmptyAcc]
Doc(pages, trailerOk, info, acc) ==
    [loaded |-> TRUE, pages |-> pages, trailerOk |-> trailerOk, info |-> info,
     acc |-> acc]

\* Page sizes <<width, height>> in page units
PageSizes == {<<600, 800>>, <<200, 100>>}

---------------------------------------------------------------------------
(* Text fixtures *)

sDRAFT == <<"D", "R", "A", "F", "T">>
\* one character outside WinAnsi, which the standard font cannot encode
sSnow == <<"U+2603">>
sOld == <<"O", "l", "d">>
sNew == <<"N", "e", "w">>
sBlank == <<" ">>
sKeywords == <<"a", ",", " ", "b">>
sTrue == <<"t", "r", "u", "e">>
sPng == <<"p", "n", "g">>
sHttp == <<"h", "t", "t", "p">>
sDataImage == <<"d", "a", "t", "a", ":", "i", "m", "a", "g", "e">>
sMimePng == <<"i", "m", "a", "g", "e", "/", "p", "n", "g">>
sMimeJpeg == <<"i", "m", "a", "g", "e", "/", "j", "p", "e", "g">>
\* base64 of the first bytes of a PNG and of a JPEG file
sB64Png == <<"i", "V", "B", "O">>
sB64Jpg == <<"/", "9", "j", "/">>
sDataPng == sDataImage \o <<"/">> \o sPng \o <<";", "b", "a", "s", "e", "6", "4", ",">> \o sB64Png
sDataJpeg == sDataImage \o <<"/", "j", "p", "e", "g", ";", "b", "a", "s", "e", "6", "4", ",">> \o sB64Jpg
sDataNoComma == sDataImage \o <<"/">> \o sPng
sUrlPng == sHttp \o <<":", "/", "/", "h", "/", "a", ".">> \o sPng
sUrlJpg == sHttp \o <<":", "/", "/", "h", "/", "b", ".", "j", "p", "g">>
sOther == <<"l", "o", "g", "o">>
sPdfDate == <<"D", ":", "2", "0", "2", "3", "0", "6", "1", "5", "1", "2", "0", "0", "0", "0">>
sPdfDateTz == sPdfDate \o <<"+", "0", "2", "'", "0", "0", "'">>
sYear == <<"2", "0", "2", "3">>
sIso == <<"2", "0", "2", "4", "-", "0", "1", "-", "0", "2", "T",
          "0", "3", ":", "0", "4", ":", "0", "5", "Z">>

\* 2023-06-15T12:00:00Z and 2023-06-15T10:00:00Z
tNoon == DateUTC(2023, 5, 15, 12, 0, 0)
tTen == DateUTC(2023, 5, 15, 10, 0, 0)

---------------------------------------------------------------------------
(* Images *)

\* Image bytes: their real format and the natural size they decode to.
NoBytes == [fmt |-> "none", w |-> 0, h |-> 0]
PngBytes == [fmt |-> "png", w |-> 100, h |-> 40]
JpgBytes == [fmt |-> "jpg", w |-> 64, h |-> 64]
BadBytes == [fmt |-> "bad", w |-> 0, h |-> 0]

NoFile == [present |-> FALSE, mimetype |-> <<>>, buffer |-> NoBytes]
File(mimetype, buffer) == [present |-> TRUE, mimetype |-> mimetype, buffer |-> buffer]

NoImg == [set |-> FALSE, fmt |-> "none", width |-> 0, height |-> 0, from |-> "none"]

\* Buffer.from(base64Data, "base64"): the bytes the payload encodes.
Base64Decode(s) ==
    IF StartsWith(s, sB64Png) THEN PngBytes
    ELSE IF StartsWith(s, sB64Jpg) THEN JpgBytes
    ELSE BadBytes

\* pdfDoc.embedPng / embedJpg: decoding succeeds on bytes of that format only.
EmbedOk(asPng, bytes) == bytes.fmt = (IF asPng THEN "png" ELSE "jpg")
Embedded(bytes, from) ==
    [set |-> TRUE, fmt |-> bytes.fmt, width |-> bytes.w, height |-> bytes.h,
     from |-> from]

\* What fetch(url) then response.arrayBuffer() can give: a network failure
\* (NoBytes stands for the rejected promise) or the body's bytes, which need
\* not be an image (an error page).
FetchOutcomes == {NoBytes, PngBytes, JpgBytes, BadBytes}

---------------------------------------------------------------------------
(* Requests *)

Files == {"part_000", "index.js"}
SetFields == {"title", "author", "subject", "keywords", "creator", "producer",
              "creationDate", "modDate"}

NoPdf == [present |-> FALSE, parses |-> FALSE, doc |-> NoDoc]
CorruptPdf == [present |-> TRUE, parses |-> FALSE, doc |-> NoDoc]
Pdf(doc) == [present |-> TRUE, parses |-> TRUE, doc |-> doc]

NoBody == [f \in SetFields |-> Undef]

Request(route, file, pdf) ==
    [route |-> route, file |-> file, pdf |-> pdf, imageFile |-> NoFile,
     text |-> Undef, image |-> Undef, position |-> PosUndef, color |-> Undef,
     shadow |-> Undef, opacity |-> Undef, body |-> NoBody]

NoReq == Request("none", "none", NoPdf)

OldAcc ==
    [title |-> Str(sOld), author |-> Str(sOld), subject |-> Str(sOld),
     keywords |-> Str(<<sOld>>), creator |-> Str(sOld), producer |-> Str(sOld),
     creationDate |-> DateAt(tNoon), modificationDate |-> DateAt(tTen)]

OldInfo == InfoWith([Title |-> Str(sOld), Producer |-> Str(sOld)])

OnePage == <<<<600, 800>>>>
TwoPages == <<<<600, 800>>, <<200, 100>>>>

\* Watermark requests that vary the uploaded files, the text and the image
\* source; the drawing parameters keep their defaults.
WatermarkSourceRequests ==
    {[Request("watermark", file, pdf) EXCEPT
        !.text = text, !.image = image, !.imageFile = imageFile] :
        file \in Files,
        pdf \in {NoPdf, CorruptPdf}
                \cup {Pdf(Doc(TwoPages, t, i, a)) :
                        t \in BOOLEAN, i \in {NoInfo, OldInfo},
                        a \in {EmptyAcc, OldAcc}},
        text \in {Undef, Str(<<>>), Str(sDRAFT), Str(sSnow)},
        image \in {Undef, Str(sDataPng), Str(sDataJpeg), Str(sDataNoComma),
                   Str(sUrlPng), Str(sUrlJpg), Str(sOther)},
        imageFile \in {NoFile, File(sMimePng, PngBytes),
                       File(sMimeJpeg, JpgBytes), File(sMimePng, JpgBytes)}}

Positions == {PosUndef, Pos("top-left"), Pos("top-right"), Pos("bottom-left"),
              Pos("bottom-right"), Pos("center"), Pos("middle")}

\* Watermark requests that vary the pages and the drawing parameters.
WatermarkDrawRequests ==
    {[Request("watermark", file, Pdf(Doc(pages, FALSE, NoInfo, EmptyAcc))) EXCEPT
        !.text = text, !.image = image, !.position = position,
        !.color = color, !.shadow = shadow, !.opacity = op] :
        file \in Files,
        pages \in SeqsUpTo(PageSizes, MaxPages),
        text \in {Undef, Str(sDRAFT)},
        image \in {Undef, Str(sDataPng)},
        position \in Positions,
        color \in {Undef, Str(<<"#", "f", "f", "0", "0", "0", "0">>),
                   Str(<<"r", "e", "d">>)},
        shadow \in {Undef, Str(sTrue)},
        op \in {Undef, Str(<<"0">>), Str(<<"2">>)}}

OpacityAlphabet == {"-", "0", "1", "2", "5", ".", "x"}
sNotANumber == <<"n", "o", "t", " ", "a", " ", "n", "u", "m", "b", "e", "r">>

\* Watermark requests that vary the opacity field.
WatermarkOpacityRequests ==
    {[Request("watermark", file, Pdf(Doc(OnePage, FALSE, NoInfo, EmptyAcc))) EXCEPT
        !.text = Str(sDRAFT), !.opacity = op] :
        file \in Files,
        op \in {Undef, Str(sNotANumber)}
               \cup {Str(o) : o \in SeqsUpTo(OpacityAlphabet, MaxOpLen)}}

\* metadata/get requests (part_000): the raw Info entries and the structured
\* accessors vary independently.
GetRequests ==
    {Request("get", "part_000", pdf) :
        pdf \in {NoPdf, CorruptPdf}
                \cup {Pdf(Doc(pages, t, i, a)) :
                        pages \in {<<>>, OnePage},
                        t \in BOOLEAN,
                        i \in {NoInfo}
                              \cup {InfoWith([CreationDate |-> cd, ModDate |-> md,
                                              Title |-> ti, Company |-> ti]) :
                                      cd \in {Undef, Str(sPdfDate), Str(sPdfDateTz),
                                              Str(sYear)},
                                      md \in {Undef, Str(sPdfDate)},
                                      ti \in {Undef, Str(sOld)}},
                        a \in {[EmptyAcc EXCEPT !.creationDate = c,
                                                !.modificationDate = m,
                                                !.title = ti] :
                                 c \in {NoDate, DateAt(tNoon), DateAt(tTen)},
                                 m \in {NoDate, DateAt(tTen)},
                                 ti \in {Undef, Str(sNew)}}}}

SetValues(f) ==
    IF f \in {"creationDate", "modDate"}
    THEN {Undef, Str(<<>>), Str(sBlank), Str(sIso), Str(sOther)}
    ELSE IF f = "keywords" THEN {Undef, Str(<<>>), Str(sBlank), Str(sKeywords)}
    ELSE {Undef, Str(<<>>), Str(sBlank), Str(sNew)}

\* Bodies of metadata/set that supply at most MaxSetFields fields.
SetBodies ==
    UNION {{[f \in SetFields |-> IF f \in F THEN g[f] ELSE Undef] :
               g \in [F -> UNION {SetValues(f) \ {Undef} : f \in F}]} :
           F \in {G \in SUBSET SetFields : Cardinality(G) <= MaxSetFields}}

SetRequests ==
    {[Request("set", file, pdf) EXCEPT !.body = body] :
        file \in Files,
        pdf \in {NoPdf, CorruptPdf,
                 Pdf(Doc(OnePage, TRUE, OldInfo, OldAcc)),
                 Pdf(Doc(OnePage, FALSE, NoInfo, EmptyAcc))},
        body \in {b \in SetBodies : \A f \in SetFields : b[f] \in SetValues(f)}}

Requests ==
    WatermarkSourceRequests \cup WatermarkDrawRequests
        \cup WatermarkOpacityRequests \cup GetRequests \cup SetRequests

---------------------------------------------------------------------------
(* Responses *)

NoResult == [none |-> TRUE]

\* res.status(code).json({ error })
ErrorResponse(code, message) ==
    [status |-> code, ctype |-> "application/json", error |-> message,
     filename |-> "", doc |-> NoDoc, result |-> NoResult]

\* res.setHeader(...); res.send(Buffer.from(pdfBytes))
PdfResponse(filename, doc) ==
    [status |-> 200, ctype |-> "application/pdf", error |-> "",
     filename |-> filename, doc |-> doc, result |-> NoResult]

\* res.json(result)
JsonResponse(result) ==
    [status |-> 200, ctype |-> "application/json", error |-> "",
     filename |-> "", doc |-> NoDoc, result |-> result]

\* The message of the 400 sent when no PDF file was uploaded.
MissingFileMessage(route, file) ==
    CASE route = "watermark" /\ file = "part_000" -> "Upload a PDF file under field 'pdf'"
      [] route = "watermark" -> "Upload a PDF file"
      [] route = "get" /\ file = "part_000" -> "Please upload a PDF file."
      [] route = "get" -> "Upload a PDF file."
      [] OTHER -> "Upload a PDF"

MissingContentMessage == "Provide either watermark text or image"

\* part_000 only: if (!text && !image && !imageFile) return 400
MissingWatermarkContent(r) ==
    /\ r.route = "watermark"
    /\ r.file = "part_000"
    /\ ~Truthy(r.text) /\ ~Truthy(r.image) /\ ~r.imageFile.present

---------------------------------------------------------------------------
(* Watermark: image resolution *)

NoHist == [fetch |-> 0, decode |-> 0, embed |-> 0]

Resolved(img, h) == [threw |-> FALSE, message |-> "", img |-> img, hist |-> h]
ResolveThrew(message, h) ==
    [threw |-> TRUE, message |-> message, img |-> NoImg, hist |-> h]

\* embedPng when asPng, embedJpg otherwise
EmbedImage(asPng, bytes, from, h) ==
    LET h2 == [h EXCEPT !.embed = @ + 1]
    IN IF EmbedOk(asPng, bytes) THEN Resolved(Embedded(bytes, from), h2)
       ELSE ResolveThrew("image could not be decoded", h2)

\* A resolution block that looks at the `image` field before the uploaded file.
ResolveImageFieldFirst(imageFile, image, fetched) ==
    IF Truthy(image) /\ StartsWith(image.s, sDataImage)
    THEN LET parts == Split(image.s, ",")
             h == [NoHist EXCEPT !.decode = 1]
         IN IF Len(parts) < 2
            THEN ResolveThrew("The first argument must be of type string", h)
            ELSE EmbedImage(Includes(image.s, sPng), Base64Decode(parts[2]),
                            "data", h)
    ELSE IF Truthy(image) /\ StartsWith(image.s, sHttp)
    THEN LET h == [NoHist EXCEPT !.fetch = 1]
         IN IF fetched = NoBytes THEN ResolveThrew("fetch failed", h)
            ELSE EmbedImage(Includes(image.s, sPng), fetched, "url", h)
    ELSE IF imageFile.present
    THEN EmbedImage(Includes(imageFile.mimetype, sPng), imageFile.buffer,
                    "file", NoHist)
    ELSE Resolved(NoImg, NoHist)

\* The image resolution block.  fetched: what the fetch gives if one is made.
ResolveImage(imageFile, image, fetched) ==
    IF imageFile.present
    THEN EmbedImage(Includes(imageFile.mimetype, sPng), imageFile.buffer,
                    "file", NoHist)
    ELSE IF Truthy(image)
    THEN IF StartsWith(image.s, sDataImage)
         THEN LET parts == Split(image.s, ",")
                  h == [NoHist EXCEPT !.decode = 1]
              IN IF Len(parts) < 2
                 THEN ResolveThrew("The first argument must be of type string", h)
                 ELSE EmbedImage(Includes(image.s, sPng), Base64Decode(parts[2]),
                                 "data", h)
         ELSE IF StartsWith(image.s, sHttp)
         THEN LET h == [NoHist EXCEPT !.fetch = 1]
              IN IF fetched = NoBytes THEN ResolveThrew("fetch failed", h)
                 ELSE EmbedImage(Includes(image.s, sPng), fetched, "url", h)
         ELSE Resolved(NoImg, NoHist)
    ELSE Resolved(NoImg, NoHist)

---------------------------------------------------------------------------
(* Watermark: drawing *)

DefaultSize == 50
DefaultScale == 1
DefaultDegrees == 45

\* parseFloat(degrees) || 0
rotationAngle ==
    LET d == parseFloatNum(Num(DefaultDegrees, 0))
    IN IF d.nan \/ d.num = 0 THEN Zero ELSE d

Black == [threw |-> FALSE, r |-> 0, g |-> 0, b |-> 0]
NoColor == [threw |-> FALSE, r |-> -1, g |-> -1, b |-> -1]

Anchor(file, position, width, height) ==
    IF file = "index.js" THEN anchorForIndex(position, width, height)
    ELSE anchorFor(position, width, height)

\* Whether the standard font can encode the text (drawText throws otherwise).
Encodable(s) == \A i \in 1..Len(s) : s[i] # "U+2603"

\* The draw operations the loop body issues on one page.
PageOps(r, page, op, img) ==
    LET a == Anchor(r.file, positionOf(r.position), page[1], page[2])
        size == DefaultSize
        shadowOp ==
            [kind |-> "shadow", anchor |-> a,
             x2 |-> a[1] - size + 4, y2 |-> a[2] - size - 4, size |-> size,
             color |-> Black, opacity |-> Half(op), angle |-> rotationAngle,
             w |-> 0, h |-> 0, img |-> NoImg]
        textOp ==
            [kind |-> "text", anchor |-> a,
             x2 |-> a[1] - size, y2 |-> a[2] - size, size |-> size,
             color |-> hexToRgb(colorOf(r.color)), opacity |-> parseFloatNum(op),
             angle |-> rotationAngle, w |-> 0, h |-> 0, img |-> NoImg]
        imgWidth == img.width * DefaultScale
        imgHeight == img.height * DefaultScale
        imageOp ==
            [kind |-> "image", anchor |-> a,
             x2 |-> a[1] - imgWidth, y2 |-> a[2] - imgHeight, size |-> 0,
             color |-> NoColor, opacity |-> parseFloatNum(op),
             angle |-> rotationAngle, w |-> imgWidth, h |-> imgHeight,
             img |-> img]
    IN (IF Truthy(r.text)
        THEN (IF Truthy(r.shadow) THEN <<shadowOp>> ELSE <<>>) \o <<textOp>>
        ELSE <<>>)
       \o (IF img.set THEN <<imageOp>> ELSE <<>>)

\* pages.forEach throws on its first drawText when the text cannot be encoded.
DrawThrows(r, doc) == Truthy(r.text) /\ ~Encodable(r.text.s) /\ Len(doc.pages) > 0

---------------------------------------------------------------------------
(* Provenance *)

sProducer == <<"E", "n", "d", "l", "e", "s", "s", " ", "F", "o", "r", "g", "e",
               " ", "P", "D", "F", " ", "A", "P", "I">>
sCreator == <<"E", "n", "d", "l", "e", "s", "s", " ", "F", "o", "r", "g", "e">>
sTitle == <<"G", "e", "n", "e", "r", "a", "t", "e", "d", " ", "P", "D", "F">>

\* pdfDoc.setProducer / setCreator / setTitle: the accessor's value is set;
\* `through` tells whether the library keeps that value in the document's
\* Info dictionary (its own outcome, not decided by this code).
setAccessors(doc, through) ==
    LET d1 == [doc EXCEPT !.acc.producer = Str(sProducer),
                          !.acc.creator = Str(sCreator),
                          !.acc.title = Str(sTitle)]
    IN IF through
       THEN [d1 EXCEPT !.info.present = TRUE,
                       !.info.d["Producer"] = Str(sProducer),
                       !.info.d["Creator"] = Str(sCreator),
                       !.info.d["Title"] = Str(sTitle)]
       ELSE d1

\* addEndlessForgeMetadata.  With a usable trailer the else-branch starts by
\* reading infoDictRef, which no scope declares: a ReferenceError, before any
\* Info entry is written.  Without one the branch is skipped and only the
\* structured accessors are set.
addEndlessForgeMetadata(doc, through) ==
    IF doc.trailerOk
    THEN [threw |-> TRUE, message |-> "infoDictRef is not defined", doc |-> doc]
    ELSE [threw |-> FALSE, message |-> "", doc |-> setAccessors(doc, through)]

---------------------------------------------------------------------------
(* metadata/get (part_000) *)

\* The try block around trailer.get / context.lookup: a dictionary only when
\* the trailer is usable and holds an Info entry that resolves to one.
infoDict(doc) == IF doc.trailerOk /\ doc.info.present THEN doc.info ELSE NoInfo

\* safeGet(key): null (Undef) or the decoded text of the entry
safeGet(doc, key) == IF infoDict(doc).present THEN infoDict(doc).d[key] ELSE Undef

\* a || b on optional strings
OrElse(a, b) == IF Truthy(a) THEN a ELSE b

\* parsePdfDate(safeGet(key)) || accessor?.toISOString() || null
dateField(doc, key, accessor) ==
    LET parsed == parsePdfDate(safeGet(doc, key))
    IN IF parsed.def THEN parsed
       ELSE IF accessor.def THEN accessor
       ELSE NoDate

\* Object.fromEntries(Object.entries(o).filter(([_, v]) => v)): a dropped
\* entry reads as Undef (NoDate for the dates).
Kept(v) == IF Truthy(v) THEN v ELSE Undef

readMetadata(doc) ==
    [metadata |->
        [title |-> Kept(OrElse(doc.acc.title, safeGet(doc, "Title"))),
         author |-> Kept(OrElse(doc.acc.author, safeGet(doc, "Author"))),
         subject |-> Kept(OrElse(doc.acc.subject, safeGet(doc, "Subject"))),
         keywords |-> Kept(OrElse(doc.acc.keywords, safeGet(doc, "Keywords"))),
         creator |-> Kept(OrElse(doc.acc.creator, safeGet(doc, "Creator"))),
         producer |-> Kept(OrElse(doc.acc.producer, safeGet(doc, "Producer"))),
         creationDate |-> dateField(doc, "CreationDate", doc.acc.creationDate),
         modificationDate |-> dateField(doc, "ModDate", doc.acc.modificationDate)],
     customFields |->
        [company |-> Kept(safeGet(doc, "Company")),
         manager |-> Kept(safeGet(doc, "Manager")),
         sourceModified |-> Kept(safeGet(doc, "SourceModified")),
         category |-> Kept(safeGet(doc, "Category")),
         comments |-> Kept(safeGet(doc, "Comments"))],
     technical |->
        [pageCount |-> Len(doc.pages),
         pageSize |-> IF Len(doc.pages) > 0 THEN doc.pages[1] ELSE <<0, 0>>,
         pageSizeKnown |-> Len(doc.pages) > 0]]

\* toISOString throws a RangeError on an Invalid Date
ReadThrows(doc) ==
    \/ /\ ~parsePdfDate(safeGet(doc, "CreationDate")).def
       /\ doc.acc.creationDate.def /\ ~doc.acc.creationDate.valid
    \/ /\ ~parsePdfDate(safeGet(doc, "ModDate")).def
       /\ doc.acc.modificationDate.def /\ ~doc.acc.modificationDate.valid

---------------------------------------------------------------------------
(* metadata/set *)

\* if (v) set(v)
SetIf(v, old) == IF Truthy(v) THEN v ELSE old

\* if (v) setXDate(new Date(v))
SetDateIf(v, old) == IF Truthy(v) THEN newDate(v.s) ELSE old

MapTrim(toks) == [i \in 1..Len(toks) |-> Trim(toks[i])]

\* part_000: all eight fields; keywords split on commas, each token trimmed
writeMetadata(doc, body) ==
    [doc EXCEPT
        !.acc.title = SetIf(body["title"], @),
        !.acc.author = SetIf(body["author"], @),
        !.acc.subject = SetIf(body["subject"], @),
        !.acc.keywords =
            IF Truthy(body["keywords"])
            THEN Str(MapTrim(Split(body["keywords"].s, ","))) ELSE @,
        !.acc.creator = SetIf(body["creator"], @),
        !.acc.producer = SetIf(body["producer"], @),
        !.acc.creationDate = SetDateIf(body["creationDate"], @),
        !.acc.modificationDate = SetDateIf(body["modDate"], @)]

\* index.js: title, author, subject, keywords (split only) and producer
writeMetadataIndex(doc, body) ==
    [doc EXCEPT
        !.acc.title = SetIf(body["title"], @),
        !.acc.author = SetIf(body["author"], @),
        !.acc.subject = SetIf(body["subject"], @),
        !.acc.keywords =
            IF Truthy(body["keywords"])
            THEN Str(Split(body["keywords"].s, ",")) ELSE @,
        !.acc.producer = SetIf(body["producer"], @)]

---------------------------------------------------------------------------
(* The handlers, one action per stretch of code between two awaits *)

Init ==
    /\ pc = "idle"
    /\ req = NoReq
    /\ pdfDoc = NoDoc
    /\ embeddedImg = NoImg
    /\ opacity = NaN
    /\ ops = <<>>
    /\ err = ""
    /\ res = <<>>
    /\ hist = NoHist

\* A request reaches its route's handler (after the key check and multer).
Receive ==
    /\ pc = "idle"
    /\ \E r \in Requests : req' = r
    /\ pc' = "entry"
    /\ UNCHANGED <<pdfDoc, embeddedImg, opacity, ops, err, res, hist>>

\* The checks without their `return`: the 400 is sent and the handler goes on.
EntryNoReturn ==
    /\ pc = "entry"
    /\ IF ~req.pdf.present
       THEN res' = Append(res, ErrorResponse(400, MissingFileMessage(req.route, req.file)))
       ELSE IF MissingWatermarkContent(req)
       THEN res' = Append(res, ErrorResponse(400, MissingContentMessage))
       ELSE res' = res
    /\ pc' = "load"
    /\ UNCHANGED <<req, pdfDoc, embeddedImg, opacity, ops, err, hist>>

\* The checks made before the document is loaded.
Entry ==
    /\ pc = "entry"
    /\ IF ~req.pdf.present
       THEN /\ res' = Append(res, ErrorResponse(400, MissingFileMessage(req.route, req.file)))
            /\ pc' = "done"
       ELSE IF MissingWatermarkContent(req)
       THEN /\ res' = Append(res, ErrorResponse(400, MissingContentMessage))
            /\ pc' = "done"
       ELSE /\ res' = res
            /\ pc' = "load"
    /\ UNCHANGED <<req, pdfDoc, embeddedImg, opacity, ops, err, hist>>

Opacity(r) ==
    IF r.file = "index.js" THEN opacityOfIndex(r.opacity) ELSE opacityOf(r.opacity)

\* await PDFDocument.load(...), then the synchronous code up to the next await
Load ==
    /\ pc = "load"
    /\ IF ~req.pdf.parses
       THEN /\ err' = "Failed to parse PDF document"
            /\ pc' = "catch"
            /\ UNCHANGED <<pdfDoc, opacity>>
       ELSE /\ pdfDoc' = req.pdf.doc
            /\ opacity' = IF req.route = "watermark" THEN Opacity(req) ELSE opacity
            /\ pc' = CASE req.route = "watermark" -> "resolve"
                       [] req.route = "get" -> "read"
                       [] OTHER -> "write"
            /\ err' = err
    /\ UNCHANGED <<req, embeddedImg, ops, res, hist>>

\* The image resolution block with its awaits (fetch, arrayBuffer, embed)
Resolve ==
    /\ pc = "resolve"
    /\ \E fetched \in FetchOutcomes :
         LET r == ResolveImage(req.imageFile, req.image, fetched)
         IN /\ hist' = r.hist
            /\ embeddedImg' = r.img
            /\ err' = IF r.threw THEN r.message ELSE err
            /\ pc' = IF r.threw THEN "catch" ELSE "draw"
    /\ UNCHANGED <<req, pdfDoc, opacity, ops, res>>

\* pages.forEach(...)
DrawPages ==
    /\ pc = "draw"
    /\ IF DrawThrows(req, pdfDoc)
       THEN /\ err' = "WinAnsi cannot encode the text"
            /\ pc' = "catch"
            /\ ops' = ops
       ELSE /\ ops' = [i \in 1..Len(pdfDoc.pages) |->
                          PageOps(req, pdfDoc.pages[i], opacity, embeddedImg)]
            /\ pc' = "stamp"
            /\ err' = err
    /\ UNCHANGED <<req, pdfDoc, embeddedImg, opacity, res, hist>>

\* await addEndlessForgeMetadata(pdfDoc)
Stamp ==
    /\ pc = "stamp"
    /\ \E through \in BOOLEAN :
       LET r == addEndlessForgeMetadata(pdfDoc, through)
       IN /\ pdfDoc' = r.doc
          /\ err' = IF r.threw THEN r.message ELSE err
          /\ pc' = IF r.threw THEN "catch" ELSE "save"
    /\ UNCHANGED <<req, embeddedImg, opacity, ops, res, hist>>

\* metadata/set: the eight conditional setters
Write ==
    /\ pc = "write"
    /\ pdfDoc' = IF req.file = "index.js" THEN writeMetadataIndex(pdfDoc, req.body)
                 ELSE writeMetadata(pdfDoc, req.body)
    /\ pc' = "save"
    /\ UNCHANGED <<req, embeddedImg, opacity, ops, err, res, hist>>

\* await pdfDoc.save(): the library serialises the document or throws
Save ==
    /\ pc = "save"
    /\ \/ /\ pc' = "send"
          /\ err' = err
       \/ /\ pc' = "catch"
          /\ err' = "save failed"
    /\ UNCHANGED <<req, pdfDoc, embeddedImg, opacity, ops, res, hist>>

\* res.setHeader(...); res.send(Buffer.from(pdfBytes))
Send ==
    /\ pc = "send"
    /\ res' = Append(res, PdfResponse(IF req.route = "watermark"
                                      THEN "watermarked.pdf"
                                      ELSE "metadata-updated.pdf", pdfDoc))
    /\ pc' = "done"
    /\ UNCHANGED <<req, pdfDoc, embeddedImg, opacity, ops, err, hist>>

\* metadata/get: build the record and res.json(result)
Read ==
    /\ pc = "read"
    /\ IF ReadThrows(pdfDoc)
       THEN /\ err' = "Invalid time value"
            /\ pc' = "catch"
            /\ res' = res
       ELSE /\ res' = Append(res, JsonResponse(readMetadata(pdfDoc)))
            /\ pc' = "done"
            /\ err' = err
    /\ UNCHANGED <<req, pdfDoc, embeddedImg, opacity, ops, hist>>

\* catch (err) { res.status(500).json({ error: err.message }) }
Catch ==
    /\ pc = "catch"
    /\ res' = Append(res, ErrorResponse(500, err))
    /\ pc' = "done"
    /\ UNCHANGED <<req, pdfDoc, embeddedImg, opacity, ops, err, hist>>

\* The handler has returned: the request's Document is discarded.
Finish ==
    /\ pc = "done"
    /\ pc' = "idle"
    /\ req' = NoReq
    /\ pdfDoc' = NoDoc
    /\ embeddedImg' = NoImg
    /\ opacity' = NaN
    /\ ops' = <<>>
    /\ err' = ""
    /\ res' = <<>>
    /\ hist' = NoHist

Next ==
    \/ Receive
    \/ Entry
    \/ Load
    \/ Resolve
    \/ DrawPages
    \/ Stamp
    \/ Write
    \/ Save
    \/ Send
    \/ Read
    \/ Catch
    \/ Finish

Spec == Init /\ [][Next]_vars

---------------------------------------------------------------------------
(* Properties *)

InHandler ==
    pc \in {"entry", "load", "resolve", "draw", "stamp", "write", "save",
            "send", "read", "catch"}

\* The request's document value behind set-field f
AccOf(doc, f) ==
    CASE f = "title" -> doc.acc.title
      [] f = "author" -> doc.acc.author
      [] f = "subject" -> doc.acc.subject
      [] f = "keywords" -> doc.acc.keywords
      [] f = "creator" -> doc.acc.creator
      [] f = "producer" -> doc.acc.producer
      [] f = "creationDate" -> doc.acc.creationDate
      [] OTHER -> doc.acc.modificationDate

NoWatermarkContent ==
    ~Truthy(req.text) /\ ~Truthy(req.image) /\ ~req.imageFile.present

\* C1: a watermark request with a PDF but no text field, no image field and
\* no image file is answered 400 "provide watermark content" and never
\* reaches drawing, stamping or serialization.
C1_MissingContentRejected ==
    (/\ req.route = "watermark"
     /\ req.pdf.present
     /\ ~req.text.def /\ ~req.image.def /\ ~req.imageFile.present)
    => /\ pc \notin {"draw", "stamp", "save", "send"}
       /\ pc = "done" => res = <<ErrorResponse(400, MissingContentMessage)>>

\* C2: a watermark request with a loadable PDF, text "DRAFT" and no image
\* ends in the PDF response (short of a failure of the library's save), with
\* the input's page count and Producer / Creator stamped in the Info
\* dictionary and in the accessors, Title "Generated PDF".
C2_ProvenanceStamped ==
    (/\ req.route = "watermark"
     /\ req.pdf.parses
     /\ req.text = Str(sDRAFT)
     /\ ~Truthy(req.image) /\ ~req.imageFile.present)
    => /\ pc = "catch" => err = "save failed"
       /\ pc \in {"save", "send"} =>
            /\ Len(pdfDoc.pages) = Len(req.pdf.doc.pages)
            /\ pdfDoc.acc.producer = Str(sProducer)
            /\ pdfDoc.acc.creator = Str(sCreator)
            /\ pdfDoc.acc.title = Str(sTitle)
            /\ pdfDoc.info.present
            /\ pdfDoc.info.d["Producer"] = Str(sProducer)
            /\ pdfDoc.info.d["Creator"] = Str(sCreator)

Between01(n) == ~n.nan /\ NumLe(Zero, n) /\ NumLe(n, One)

\* The opacity the claim states for the field value v
C3_Stated(v) ==
    LET p == parseFloat(v)
    IN IF p.nan THEN Num(3, 1)
       ELSE IF p.num < 0 THEN Num(0, 0)
       ELSE IF NumLe(One, p) THEN Num(1, 0)
       ELSE p

\* C3: the effective opacity is 0.3 when the field is missing or not a
\* number, else the parsed value clamped into [0,1]; -5, 0, 0.5, 1, 2 and
\* "not a number" give 0, 0, 0.5, 1, 1 and 0.3; every draw uses a value in
\* [0,1].
C3_OpacityClamped ==
    (req.route = "watermark" /\ pc \in {"resolve", "draw", "stamp", "save", "send"})
    => /\ NumEq(opacity, C3_Stated(req.opacity))
       /\ req.opacity = Str(<<"-", "5">>) => NumEq(opacity, Num(0, 0))
       /\ req.opacity = Str(<<"0">>) => NumEq(opacity, Num(0, 0))
       /\ req.opacity = Str(<<"0", ".", "5">>) => NumEq(opacity, Num(5, 1))
       /\ req.opacity = Str(<<"1">>) => NumEq(opacity, Num(1, 0))
       /\ req.opacity = Str(<<"2">>) => NumEq(opacity, Num(1, 0))
       /\ req.opacity = Str(sNotANumber) => NumEq(opacity, Num(3, 1))
       /\ \A i \in 1..Len(ops) : \A j \in 1..Len(ops[i]) :
            Between01(ops[i][j].opacity)

\* C4: with the image given as a remote URL and text present, a failed fetch
\* or an undecodable payload does not end the request in the catch block.
C4_FetchFailureDegrades ==
    (/\ req.route = "watermark"
     /\ req.pdf.parses
     /\ req.text = Str(sDRAFT)
     /\ ~req.imageFile.present
     /\ req.image.def /\ StartsWith(req.image.s, sHttp)
     /\ hist.fetch = 1)
    => ~(pc = "catch" /\ err \in {"fetch failed", "image could not be decoded"})

\* The anchor the claim states, doubled, for a page of width W and height H
C5_Stated(position, W, H) ==
    IF position = Pos("top-left") THEN <<60, 2 * H - 60>>
    ELSE IF position = Pos("top-right") THEN <<2 * W - 60, 2 * H - 60>>
    ELSE IF position = Pos("bottom-left") THEN <<60, 60>>
    ELSE IF position = Pos("bottom-right") THEN <<2 * W - 60, 60>>
    ELSE <<W, H>>

\* C5: on every page the anchor of each draw operation is the margin-30
\* corner named by the position, or the centre for "center" and any other
\* value, computed from that page's own size.
C5_AnchorPerPage ==
    \A i \in 1..Len(ops) : \A j \in 1..Len(ops[i]) :
        ops[i][j].anchor =
            C5_Stated(req.position, pdfDoc.pages[i][1], pdfDoc.pages[i][2])

\* C5 witness: two pages of different sizes drawn at "top-right"
C5_Witness ==
    /\ Len(ops) = 2
    /\ req.position = Pos("top-right")
    /\ pdfDoc.pages[1] # pdfDoc.pages[2]
    /\ ops[1] # <<>> /\ ops[2] # <<>>
    /\ ops[1][1].anchor = <<1140, 1540>>
    /\ ops[2][1].anchor = <<340, 140>>

\* C6 as stated: one response per request: 400 when no PDF was uploaded, 500
\* with the error's message when a later step threw, success otherwise.
C6_AsStated ==
    (req.file = "part_000" /\ pc = "done")
    => /\ Len(res) = 1
       /\ res[1].status =
            (IF ~req.pdf.present THEN 400 ELSE IF err # "" THEN 500 ELSE 200)

\* C6 amended: one response per request: 400 when no PDF was uploaded or,
\* in part_000's watermark handler, when no watermark content was given
\* (both before any document is loaded); 500 with the error's message when a
\* later step threw; success otherwise.  Nothing is answered before the
\* handler ends, answered twice or fetched twice, and a handler that has
\* ended has answered.
C6_OneResponse ==
    /\ Len(res) <= 1
    /\ InHandler => Len(res) = 0
    /\ hist.fetch <= 1
    /\ pc = "done" =>
         /\ Len(res) = 1
         /\ IF \/ ~req.pdf.present
               \/ /\ req.route = "watermark" /\ req.file = "part_000"
                  /\ NoWatermarkContent
            THEN /\ res[1].status = 400
                 /\ res[1].ctype = "application/json"
                 /\ res[1].error # ""
                 /\ pdfDoc = NoDoc
            ELSE IF err # ""
            THEN /\ res[1].status = 500
                 /\ res[1].ctype = "application/json"
                 /\ res[1].error = err
            ELSE /\ res[1].status = 200
                 /\ res[1].error = ""
                 /\ res[1].ctype =
                      (IF req.route = "get" THEN "application/json"
                       ELSE "application/pdf")

\* C6 witness: the three kinds of answer, here a 500 after a failed save
C6_Witness ==
    /\ pc = "done"
    /\ req.route = "set"
    /\ req.file = "part_000"
    /\ err = "save failed"
    /\ res = <<ErrorResponse(500, "save failed")>>

\* C7: in metadata/get a date of the structured accessor is returned even
\* when the raw Info entry parses too.
C7_StructuredDateFirst ==
    (/\ req.route = "get"
     /\ pc = "done"
     /\ Len(res) = 1
     /\ res[1].status = 200)
    => /\ pdfDoc.acc.creationDate.def =>
            res[1].result.metadata.creationDate = pdfDoc.acc.creationDate
       /\ pdfDoc.acc.modificationDate.def =>
            res[1].result.metadata.modificationDate = pdfDoc.acc.modificationDate

\* C8: in metadata/set a field of the document is overwritten if and only
\* if the input field is present and non-empty after trimming.
C8_OverwriteIffSupplied ==
    (req.route = "set" /\ pc \in {"save", "send"})
    => \A f \in SetFields :
         (AccOf(pdfDoc, f) # AccOf(req.pdf.doc, f))
            <=> (req.body[f].def /\ Trim(req.body[f].s) # <<>>)

\* six hex digits with an optional leading "#"
ValidHex6(s) ==
    LET t == IF s # <<>> /\ Head(s) = "#" THEN Tail(s) ELSE s
    IN Len(t) = 6 /\ \A i \in 1..6 : IsHex(t[i])

\* C9: hexToRgb fails on a color that is not six hex digits, so no text run
\* is drawn with a color derived from a malformed string.
C9_InvalidColorRejected ==
    /\ req.route = "watermark" /\ ~ValidHex6(colorOf(req.color))
         => hexToRgb(colorOf(req.color)).threw
    /\ \A i \in 1..Len(ops) : \A j \in 1..Len(ops[i]) :
         ops[i][j].kind = "text" => ValidHex6(colorOf(req.color))

\* C10: the watermark image is resolved at most once per request, before
\* any page is drawn, uploaded file over data-URL over remote URL: with an
\* uploaded file the `image` field is neither decoded nor fetched, a
\* data:image string is never fetched, and every page draws that one image.
C10_ResolvedOnce ==
    /\ hist.fetch + hist.decode <= 1
    /\ hist.embed <= 1
    /\ req.imageFile.present => hist.fetch = 0 /\ hist.decode = 0
    /\ (req.image.def /\ StartsWith(req.image.s, sDataImage)) => hist.fetch = 0
    /\ pc \in {"entry", "load", "resolve"} => ops = <<>> /\ hist = NoHist
    /\ embeddedImg.set =>
         embeddedImg.from =
            (IF req.imageFile.present THEN "file"
             ELSE IF StartsWith(req.image.s, sDataImage) THEN "data"
             ELSE "url")
    /\ \A i \in 1..Len(ops) :
         /\ \A j \in 1..Len(ops[i]) :
              ops[i][j].kind = "image" => ops[i][j].img = embeddedImg
         /\ Cardinality({j \in 1..Len(ops[i]) : ops[i][j].kind = "image"})
              = (IF embeddedImg.set THEN 1 ELSE 0)

\* C10 witness: an uploaded file and a remote URL together; the file is
\* drawn on both pages and nothing was fetched
C10_Witness ==
    /\ pc = "stamp"
    /\ req.imageFile.present
    /\ req.image = Str(sUrlPng)
    /\ hist = [fetch |-> 0, decode |-> 0, embed |-> 1]
    /\ Len(ops) = 2
    /\ \A i \in 1..2 : \E j \in 1..Len(ops[i]) :
         ops[i][j].kind = "image" /\ ops[i][j].img.from = "file"

=============================================================================
